---- MODULE Spec2Model ----
(***************************************************************************)
(* The concurrent programming orchestrator of BulkMCUploader               *)
(* (src/app_v3.py): the poll loop auto_detect_and_program with its hub     *)
(* admission control, the worker pool, the result processor and the        *)
(* session commands, and the retry loop program_device_with_retry.         *)
(***************************************************************************)
EXTENDS Integers, Sequences, FiniteSets, TLC

\* ------------------------------------------------------------------ bounds

NumPorts == 2
MaxSessions == 2
MaxJobs == 2
MaxRetries == 3
MaxHubDepth == 3

Ports == 1..NumPorts
Sessions == 1..MaxSessions
JobIds == 1..MaxJobs

\* ------------------------------------------------- hub topology resolver

\* The USB location of a port's hardware id, as its '.'-separated segments:
\* ports 1 and 2 sit behind the same hub, which is plugged into the host
\* ("1-1.1", "1-1.2") or, nested, into port 4 of another hub ("1-1.4.1",
\* "1-1.4.2"); every further port is attached directly.
Location(p, nested) ==
    IF p <= 2
    THEN (IF nested THEN <<"1-1", "4">> ELSE <<"1-1">>)
            \o <<IF p = 1 THEN "1" ELSE "2">>
    ELSE <<"1-2">>

Direct == <<"direct">>

\* get_ports_with_hub_info: the hub id is the location without its last
\* segment, "direct" for a location of one segment.
HubIdOfLocation(hub_parts) ==
    IF Len(hub_parts) > 1
    THEN SubSeq(hub_parts, 1, Len(hub_parts) - 1)
    ELSE Direct

\* A hub level that counts every segment.
HubLevelOfLocation_segments(hub_parts) ==
    IF Len(hub_parts) > 1 THEN Len(hub_parts) ELSE 0

\* get_ports_with_hub_info: the hub level is the number of segments but the
\* last, 0 for a location of one segment.
HubLevelOfLocation(hub_parts) ==
    IF Len(hub_parts) > 1 THEN Len(hub_parts) - 1 ELSE 0

HubIds ==
    {HubIdOfLocation(Location(p, n)) : p \in Ports, n \in BOOLEAN} \cup {Direct}

\* Texts are sequences of characters (of longer tokens where the program
\* does not look inside them).

RECURSIVE PrefixLen(_, _)
\* The number of leading characters of a text that are in a set.
PrefixLen(text, set) ==
    IF text = <<>> \/ Head(text) \notin set THEN 0
    ELSE 1 + PrefixLen(Tail(text), set)

RECURSIVE SplitText(_, _)
\* text.split(sep)
SplitText(text, sep) ==
    LET n == PrefixLen(text, {text[i] : i \in 1..Len(text)} \ {sep}) IN
    IF n = Len(text) THEN <<text>>
    ELSE <<SubSeq(text, 1, n)>> \o SplitText(SubSeq(text, n + 2, Len(text)), sep)

RECURSIVE JoinText(_, _)
\* sep.join(parts)
JoinText(parts, sep) ==
    IF parts = <<>> THEN <<>>
    ELSE IF Len(parts) = 1 THEN parts[1]
    ELSE parts[1] \o <<sep>> \o JoinText(Tail(parts), sep)

DigitChars == {"0", "1", "4"}

\* re.search(r"LOCATION=(\d+-[\d.]+)", hwid), on the text that follows
\* "LOCATION=": the group matched, <<>> for no match.
LocationMatch(text) ==
    LET bus == PrefixLen(text, DigitChars)
        rest == SubSeq(text, bus + 2, Len(text))
        path == PrefixLen(rest, DigitChars \cup {"."})
    IN IF bus > 0 /\ Len(text) > bus /\ text[bus + 1] = "-" /\ path > 0
       THEN SubSeq(text, 1, bus + 1 + path)
       ELSE <<>>

\* Vendor and product ids, each four hexadecimal digits taken as one token.
VendorIds == {"2341", "1A86"}
ProductIds == {"0043", "7523"}

\* re.search(r"VID:PID=([0-9A-F]{4}:[0-9A-F]{4})", hwid), on the text that
\* follows "VID:PID=": the group matched, <<>> for no match.
VidPidMatch(text) ==
    IF /\ Len(text) >= 3
       /\ text[1] \in VendorIds
       /\ text[2] = ":"
       /\ text[3] \in ProductIds
    THEN SubSeq(text, 1, 3)
    ELSE <<>>

\* One port_info of get_ports_with_hub_info, for a hwid given as whether it
\* holds "USB" and "VID", its text after "VID:PID=" and its text after
\* "LOCATION=" (<<>> for a hwid without). hub_level is <<>> where the dict
\* has no such key.
port_info_of(h) ==
    IF LocationMatch(h.location) # <<>>
    THEN LET location == LocationMatch(h.location)
             hub_parts == SplitText(SplitText(location, ":")[1], ".")
         IN [hub_id |-> IF Len(hub_parts) > 1
                        THEN JoinText(HubIdOfLocation(hub_parts), ".")
                        ELSE Direct,
             hub_level |-> <<HubLevelOfLocation(hub_parts)>>]
    ELSE IF h.usb_vid /\ VidPidMatch(h.vid_pid) # <<>>
    THEN [hub_id |-> <<"hub_">> \o SplitText(VidPidMatch(h.vid_pid), ":")[1],
          hub_level |-> <<>>]
    ELSE [hub_id |-> Direct, hub_level |-> <<>>]

\* port_info.get("hub_level", 0)
hub_level_get(port_info) ==
    IF port_info.hub_level = <<>> THEN 0 ELSE port_info.hub_level[1]

\* The USB locations explored: port 1 of bus 1 and below it up to
\* MaxHubDepth hub ports, with or without the interface suffix.
HubPortTexts == {<<".", "4">>, <<".", "1", "0">>}

RECURSIVE LocationPaths(_)
LocationPaths(depth) ==
    IF depth = 0 THEN {<<"1", "-", "1">>}
    ELSE LET shorter == LocationPaths(depth - 1)
         IN shorter \cup {path \o seg : path \in shorter, seg \in HubPortTexts}

LocationTexts ==
    {path \o suffix : path \in LocationPaths(MaxHubDepth),
                      suffix \in {<<>>, <<":", "1", ".", "0">>}}

\* The hwids explored: of a USB device with a location, of a USB device
\* without, and of a port that is no USB device.
HwIds ==
    {[usb_vid |-> TRUE, vid_pid |-> <<"2341", ":", "0043">>, location |-> l] :
        l \in LocationTexts}
    \cup {[usb_vid |-> TRUE, vid_pid |-> <<v, ":", d>>, location |-> <<>>] :
             v \in VendorIds, d \in ProductIds}
    \cup {[usb_vid |-> FALSE, vid_pid |-> <<>>, location |-> <<>>]}

\* ------------------------------------------------------------------ state

VARIABLES
    stop_programming,    \* self.stop_programming
    programming_active,  \* self.programming_active
    start_button,        \* the start button is enabled
    stop_button,         \* the stop button is enabled
    executor,            \* self.executor: 0 for None, else the pool's id
    execShut,            \* pool id -> its shutdown() was called
    execMax,             \* pool id -> its max_workers
    saved_data,          \* self.saved_data, the options the orchestrator reads
    mode_var,            \* self.mode_var
    stats,               \* self.stats
    result_queue,        \* self.result_queue
    rp_pc,               \* the result processor's position
    rp_result,           \* the result it is applying
    nSessions,           \* manager threads started so far
    mpc,                 \* manager thread -> its position
    known_ports,         \* auto_detect_and_program's locals, per manager thread
    pending_futures,     \*   an insertion-ordered dict: a sequence of <<port, job>>
    hub_load_balancing,  \*   hub id -> set of ports
    programmed_ports,
    current_ports,       \*   the ports of the current tick's scan
    todo,                \*   the ports the admission loop has not reached yet
    resulted_ports,      \* manager thread -> the ports it has collected a result of
    delayed_ports,       \* manager thread -> the ports it refused for hub capacity
                         \*   that were attached at every scan since
    waitExec,            \* the pool a finishing manager thread waits for
    nJobs,               \* jobs submitted so far
    jobs,                \* job id -> the job's record
    env,                 \* what the user and the devices do in this run
                         \*   (port_var: the port selected, 0 for "All")
    r_pc,                \* one call of program_device_with_retry: its position
    r_hub_id,            \*   its hub_id argument
    r_max_retries,       \*   its local max_retries
    r_attempt,           \*   its loop variable
    r_outcomes,          \*   what each call of programmer.program_board did
    r_log,               \*   the calls, sleeps and log lines of the job, in order
    r_result,            \*   the ProgrammingResult it returned
    tightened,           \* nested hubs were detected while the session's
                         \*   programming_active flag was set
    start_input,         \* the last call of start_programming: what it found
    messagebox,          \*   the error dialog it showed
    finished,            \* history: the jobs in the order they ended
    dispatched,          \* history: manager thread -> the ports it submitted a
                         \*   job for that were attached at every scan since
    hwid,                \* one call of get_ports_with_hub_info: port -> its hwid
    ports_info           \*   what the call returned: port -> its port_info

appVars == <<stop_programming, programming_active, start_button, stop_button,
             executor, execShut, execMax>>
settingVars == <<saved_data, mode_var>>
statVars == <<stats, result_queue, rp_pc, rp_result>>
loopVars == <<known_ports, pending_futures, hub_load_balancing,
              programmed_ports, current_ports, todo, resulted_ports,
              delayed_ports>>
jobVars == <<nJobs, jobs>>
retryVars == <<r_pc, r_hub_id, r_max_retries, r_attempt, r_outcomes, r_log,
               r_result>>
orchVars == <<appVars, settingVars, statVars, nSessions, mpc, loopVars,
              waitExec, jobVars>>

startVars == <<start_input, messagebox>>

hubVars == <<hwid, ports_info>>
auxVars == <<finished, dispatched, hubVars>>
vars == <<orchVars, env, retryVars, tightened, startVars, auxVars>>

\* The hub topology of this run.
PortLocation(p) == Location(p, env.nested)

HubIdOf(p) == HubIdOfLocation(PortLocation(p))

HubLevelOf(p) == HubLevelOfLocation(PortLocation(p))

\* ---------------------------------------------------------------- helpers

\* A removal that removes nothing.
SelectPairs_keep(d, S) == d

RECURSIVE SelectPairs(_, _)
\* The pairs of an insertion-ordered dict whose key is not in S.
SelectPairs(d, S) ==
    IF d = <<>> THEN <<>>
    ELSE IF d[1][1] \in S THEN SelectPairs(Tail(d), S)
    ELSE <<d[1]>> \o SelectPairs(Tail(d), S)

Keys(d) == {d[i][1] : i \in 1..Len(d)}

NoJob == [state |-> "none", port |-> 0, hub_id |-> Direct, exec |-> 0,
          sess |-> 0, outcome |-> "none"]

\* A finished job no future is held of: nobody can read its outcome.
Dropped == [NoJob EXCEPT !.state = "done"]

\* The jobs the futures of the dicts pf (manager thread -> dict) belong to.
HeldIn(pf) == UNION {{pf[s][i][2] : i \in 1..Len(pf[s])} : s \in DOMAIN pf}

\* The job records once the dicts are pf: a finished job is forgotten with
\* the last future held of it.
Forget(js, pf) ==
    [j \in DOMAIN js |->
        IF js[j].state = "done" /\ j \notin HeldIn(pf) THEN Dropped ELSE js[j]]

EmptyStats == [total_programmed |-> 0, successful |-> 0, failed |-> 0,
               session_results |-> <<>>]

NoResult == [port |-> 0, success |-> FALSE, sess |-> 0, job |-> 0]

\* default_settings
DefaultMaxRetries == 3
DefaultMaxParallelJobs == 4
DefaultMaxDevicesPerHub == 2

ExecutionModes == {"Continuous", "Single"}
HubCapacityChoices == {1, 2}

\* The runs explored: one session in which both ports come and go and the
\* settings dialog is used, or sessions started one after the other (stop,
\* start again) on one port with the settings left alone.
Envelopes ==
    {[starts |-> 1, ports |-> Ports, settings_dialog |-> TRUE,
      nested |-> FALSE, history |-> FALSE,
              port_var |-> 0],
     [starts |-> MaxSessions, ports |-> {1}, settings_dialog |-> FALSE,
      nested |-> FALSE, history |-> FALSE,
              port_var |-> 0]}

\* A hub check that also admits a port into a full group.
check_hub_capacity_inclusive(hub_id, hlb) ==
    IF hub_id = Direct THEN TRUE
    ELSE Cardinality(hlb[hub_id]) <= saved_data.max_devices_per_hub

\* A hub check that admits every port.
check_hub_capacity_always(hub_id, hlb) == TRUE

\* set.remove(port): it raises KeyError for a port the set does not hold.
SetRemove(set, port) == [raised |-> port \notin set, set |-> set \ {port}]

\* A release that removes the port from every group without looking first.
Release_unguarded(hlb, port) ==
    [raised |-> \E h \in DOMAIN hlb : SetRemove(hlb[h], port).raised,
     hlb |-> [h \in DOMAIN hlb |-> SetRemove(hlb[h], port).set]]

\* "Update hub load tracking": for every hub id, the port is removed from
\* the group if the group holds it.
Release(hlb, port) ==
    LET removed == [h \in DOMAIN hlb |->
                       IF port \in hlb[h]
                       THEN SetRemove(hlb[h], port)
                       ELSE [raised |-> FALSE, set |-> hlb[h]]]
    IN [raised |-> \E h \in DOMAIN hlb : removed[h].raised,
        hlb |-> [h \in DOMAIN hlb |-> removed[h].set]]

\* A release that leaves the slots taken.
ReleaseAll_none(hlb, ports) == hlb

RECURSIVE ReleaseAll(_, _)
\* The release of each port of a set, one after the other.
ReleaseAll(hlb, ports) ==
    IF ports = {} THEN hlb
    ELSE LET port == CHOOSE x \in ports : TRUE
         IN ReleaseAll(Release(hlb, port).hlb, ports \ {port})

\* check_hub_capacity
check_hub_capacity(hub_id, hlb) ==
    IF hub_id = Direct THEN TRUE
    ELSE Cardinality(hlb[hub_id]) < saved_data.max_devices_per_hub

\* The ways a call of program_device_with_retry can end: every
\* ProgrammingResult it builds reads self.saved_data["baud_rate"], which
\* raises KeyError when the settings hold no baud rate (RetryAttempt below).
JobOutcomes ==
    IF saved_data.baud_rate THEN {"ok", "fail"} ELSE {"raise"}

\* ------------------------------------------------------------------- Init

\* __init__: no session, no pool, empty statistics.
InitApp ==
    /\ stop_programming = FALSE
    /\ programming_active = FALSE
    /\ start_button = TRUE
    /\ stop_button = FALSE
    /\ executor = 0
    /\ execShut = [e \in Sessions |-> FALSE]
    /\ execMax = [e \in Sessions |-> 0]
    /\ stats = EmptyStats
    /\ result_queue = <<>>
    /\ rp_pc = "get"
    /\ rp_result = NoResult
    /\ nSessions = 0
    /\ mpc = [s \in Sessions |-> "none"]
    /\ known_ports = [s \in Sessions |-> {}]
    /\ pending_futures = [s \in Sessions |-> <<>>]
    /\ hub_load_balancing = [s \in Sessions |-> [h \in HubIds |-> {}]]
    /\ programmed_ports = [s \in Sessions |-> {}]
    /\ current_ports = [s \in Sessions |-> {}]
    /\ todo = [s \in Sessions |-> {}]
    /\ resulted_ports = [s \in Sessions |-> {}]
    /\ delayed_ports = [s \in Sessions |-> {}]
    /\ waitExec = [s \in Sessions |-> 0]
    /\ nJobs = 0
    /\ jobs = [j \in JobIds |-> NoJob]

\* What start_programming reads: the board selected, the firmware path
\* entered, whether ArduinoCLIProgrammer was constructed, and what its
\* check_arduino_cli does (it returns whether the tool answered, or raises
\* what subprocess.run raises and it does not catch).
ValidInput == [board_var |-> "Arduino Uno", file_var |-> "firmware.hex",
               programmer |-> TRUE, check_arduino_cli |-> "available"]

\* The inputs explored: valid, or with one thing wrong (the checks are early
\* returns one after the other, the first that fails decides).
StartInputs ==
    {in \in [board_var : {"", "Arduino Uno"},
             file_var : {"", "missing.hex", "firmware.hex"},
             programmer : BOOLEAN,
             check_arduino_cli : {"available", "unavailable", "raised"}] :
        Cardinality({f \in DOMAIN in : in[f] # ValidInput[f]}) <= 1}

\* os.path.exists
path_exists(file) == file = "firmware.hex"

\* A validation that trusts the tool to be there.
StartError_tool_unchecked(in) ==
    IF in.board_var = "" THEN "Please select a target board!"
    ELSE IF in.file_var = "" \/ ~path_exists(in.file_var)
         THEN "Please select a valid firmware file or sketch!"
    ELSE ""

\* The validation of start_programming: the error it shows, or "raised" when
\* check_arduino_cli raises, or "" when the start goes on.
StartError(in) ==
    IF in.board_var = "" THEN "Please select a target board!"
    ELSE IF in.file_var = "" \/ ~path_exists(in.file_var)
         THEN "Please select a valid firmware file or sketch!"
    ELSE IF ~in.programmer THEN "Arduino CLI not initialized!"
    ELSE IF in.check_arduino_cli = "raised" THEN "raised"
    ELSE IF in.check_arduino_cli = "unavailable" THEN "Arduino CLI not available!"
    ELSE ""

\* start_programming has not been called with anything but valid inputs.
StartIdle ==
    /\ start_input = ValidInput
    /\ messagebox = ""

\* No history is kept and get_ports_with_hub_info is not followed.
AuxIdle ==
    /\ finished = <<>>
    /\ dispatched = [s \in Sessions |-> {}]
    /\ hwid = <<>>
    /\ ports_info = <<>>

\* No call of program_device_with_retry is followed step by step.
RetryIdle ==
    /\ r_pc = "idle"
    /\ r_hub_id = Direct
    /\ r_max_retries = 0
    /\ r_attempt = 0
    /\ r_outcomes = <<>>
    /\ r_log = <<>>
    /\ r_result = [success |-> FALSE,
                   message |-> [kind |-> "none", attempt |-> 0]]

\* load_settings: the defaults, which hold no baud rate, merged with a
\* settings file, which holds one once the dialog has saved it.
Init ==
    /\ InitApp
    /\ RetryIdle
    /\ StartIdle
    /\ AuxIdle
    /\ tightened = FALSE
    /\ env \in Envelopes
    /\ saved_data \in [max_retries : {DefaultMaxRetries},
                       max_parallel_jobs : {DefaultMaxParallelJobs},
                       max_devices_per_hub : {DefaultMaxDevicesPerHub},
                       baud_rate : BOOLEAN]
    /\ mode_var \in ExecutionModes

\* ------------------------------------------------------- session commands

\* start_programming after its validation: the statistics are reset, the
\* flags and buttons set, a pool created and a manager thread started.
StartAccepted ==
    /\ LET s == nSessions + 1 IN
       /\ stats' = EmptyStats
       /\ start_button' = FALSE
       /\ stop_button' = TRUE
       /\ stop_programming' = FALSE
       /\ programming_active' = TRUE
       /\ executor' = s
       /\ execMax' = [execMax EXCEPT ![s] = saved_data.max_parallel_jobs]
       /\ nSessions' = s
       /\ mpc' = [mpc EXCEPT ![s] = "begin"]
    /\ tightened' = FALSE
    /\ UNCHANGED <<execShut, settingVars, result_queue, rp_pc, rp_result,
                   loopVars, waitExec, jobVars>>

\* start_programming, its validation passed.
StartProgramming ==
    /\ start_button
    /\ nSessions < env.starts
    /\ StartAccepted
    /\ UNCHANGED <<env, retryVars, startVars, auxVars>>

\* start_programming with what it finds: a failed validation shows its error
\* and returns (or the exception of check_arduino_cli ends the callback),
\* otherwise the start goes on.
StartCommand ==
    /\ start_button
    /\ \E in \in StartInputs :
          /\ start_input' = in
          /\ IF StartError(in) = ""
             THEN /\ nSessions < env.starts
                  /\ StartAccepted
                  /\ messagebox' = ""
             ELSE /\ messagebox' = IF StartError(in) = "raised" THEN ""
                                   ELSE StartError(in)
                  /\ UNCHANGED <<orchVars, tightened>>
    /\ UNCHANGED <<env, retryVars, auxVars>>

\* stop_programming_action
StopProgrammingAction ==
    /\ stop_button
    /\ stop_programming' = TRUE
    /\ programming_active' = FALSE
    /\ execShut' = IF executor # 0
                   THEN [execShut EXCEPT ![executor] = TRUE]
                   ELSE execShut
    /\ start_button' = TRUE
    /\ stop_button' = FALSE
    /\ UNCHANGED <<executor, execMax, settingVars, statVars, nSessions, mpc,
                   loopVars, waitExec, jobVars, env, retryVars, tightened, startVars, auxVars>>

\* save_settings of the settings dialog: it writes the options, among them
\* the baud rate, and the mode. The user changes the mode and the devices
\* per hub and leaves the other fields as the dialog shows them.
SaveSettings ==
    /\ env.settings_dialog
    /\ \E m \in ExecutionModes, cap \in HubCapacityChoices :
          /\ saved_data' = [saved_data EXCEPT !.max_devices_per_hub = cap,
                                              !.baud_rate = TRUE]
          /\ mode_var' = m
    /\ UNCHANGED <<appVars, statVars, nSessions, mpc, loopVars, waitExec,
                   jobVars, env, retryVars, tightened, startVars, auxVars>>

\* The highest hub level among the ports of a scan, 0 for none.
max_hub_level(scan) ==
    IF \E p \in scan : HubLevelOf(p) >= 2 THEN 2
    ELSE IF \E p \in scan : HubLevelOf(p) = 1 THEN 1
    ELSE 0

\* detect_nested_hubs: the options after it has seen the ports of scan.
detect_nested_hubs(options, scan) ==
    IF max_hub_level(scan) >= 2
    THEN [options EXCEPT !.max_devices_per_hub = 1,
                         !.max_parallel_jobs = IF @ < 2 THEN @ ELSE 2]
    ELSE options

\* refresh_ports, called by the Refresh button and by what monitor_ports
\* has scheduled: detect_nested_hubs scans the ports and, on nested hubs,
\* tightens the options. tightened records that it did so while a session
\* was running.
RefreshPorts ==
    /\ \E scan \in SUBSET env.ports :
          /\ saved_data' = detect_nested_hubs(saved_data, scan)
          /\ tightened' = (tightened \/ (max_hub_level(scan) >= 2 /\ programming_active))
    /\ UNCHANGED <<appVars, mode_var, statVars, nSessions, mpc, loopVars,
                   waitExec, jobVars, env, retryVars, startVars, auxVars>>

\* get_ports_with_hub_info: a port_info for every port the enumerator
\* lists.
GetPortsWithHubInfo ==
    /\ ports_info = <<>>
    /\ hwid # <<>>
    /\ ports_info' = [p \in DOMAIN hwid |-> port_info_of(hwid[p])]
    /\ UNCHANGED <<orchVars, env, retryVars, tightened, startVars, finished,
                   dispatched, hwid>>

\* ------------------------------------------------------ programming_manager

\* programming_manager up to the call of auto_detect_and_program: the core
\* installation succeeds and the loop's locals are created, or it fails and
\* the thread goes to its clean-up.
ManagerBegin(s) ==
    /\ mpc[s] = "begin"
    /\ \E core_success \in BOOLEAN :
          mpc' = [mpc EXCEPT ![s] = IF ~core_success THEN "cleanup"
                                    ELSE IF env.port_var = 0 THEN "loop"
                                    ELSE "single"]
    /\ UNCHANGED <<appVars, settingVars, statVars, nSessions, loopVars,
                   waitExec, jobVars, env, retryVars, tightened, startVars, auxVars>>

\* Every scanned port taken for a new one.
NewPorts_all(s) == current_ports[s]

\* new_ports of the tick under way.
NewPorts(s) == current_ports[s] \ known_ports[s]

\* The loop's condition holds, the ports are scanned and the disconnected
\* ports are removed from the bookkeeping. The scan is the enumerator's
\* answer: any set of ports, listed in any order; the order is resolved as
\* the admission loop goes through them (AdmitStep).
TickBegin(s) ==
    /\ mpc[s] = "loop"
    /\ ~stop_programming
    /\ \E scan \in SUBSET env.ports :
          LET disconnected_ports == known_ports[s] \ scan IN
          /\ current_ports' = [current_ports EXCEPT ![s] = scan]
          /\ todo' = [todo EXCEPT ![s] = scan]
          /\ pending_futures' =
                [pending_futures EXCEPT
                    ![s] = SelectPairs(pending_futures[s], disconnected_ports)]
          /\ hub_load_balancing' =
                [hub_load_balancing EXCEPT
                    ![s] = ReleaseAll(hub_load_balancing[s], disconnected_ports)]
          /\ delayed_ports' = [delayed_ports EXCEPT ![s] = delayed_ports[s] \cap scan]
          /\ dispatched' = [dispatched EXCEPT ![s] = dispatched[s] \cap scan]
          /\ mpc' = [mpc EXCEPT
                       ![s] = IF scan = {} THEN "collect" ELSE "admit"]
    /\ jobs' = Forget(jobs, pending_futures')
    /\ UNCHANGED <<appVars, settingVars, statVars, nSessions, known_ports,
                   programmed_ports, resulted_ports, waitExec, nJobs, env,
                   retryVars, tightened, startVars, finished, hubVars>>

\* A failed scan after which the loop takes every port for new again.
TickFails_forgets(s) ==
    /\ mpc[s] = "loop"
    /\ ~stop_programming
    /\ mpc' = [mpc EXCEPT ![s] = "except"]
    /\ known_ports' = [known_ports EXCEPT ![s] = {}]
    /\ UNCHANGED <<appVars, settingVars, statVars, nSessions, pending_futures,
                   hub_load_balancing, programmed_ports, current_ports, todo,
                   resulted_ports, delayed_ports, waitExec, jobVars, env,
                   retryVars, tightened, startVars, auxVars>>

\* The loop's condition holds and get_ports_with_hub_info raises (the
\* enumerator fails): control goes to the handler of the loop, which logs
\* the error and sleeps.
TickFails(s) ==
    /\ mpc[s] = "loop"
    /\ ~stop_programming
    /\ mpc' = [mpc EXCEPT ![s] = "except"]
    /\ UNCHANGED <<appVars, settingVars, statVars, nSessions, loopVars,
                   waitExec, jobVars, env, retryVars, tightened, startVars, auxVars>>

\* The handler's sleep is over: the loop goes to its condition.
TickResume(s) ==
    /\ mpc[s] = "except"
    /\ mpc' = [mpc EXCEPT ![s] = "loop"]
    /\ UNCHANGED <<appVars, settingVars, statVars, nSessions, loopVars,
                   waitExec, jobVars, env, retryVars, tightened, startVars, auxVars>>

\* The loop's condition fails: auto_detect_and_program returns and its
\* locals are gone.
LoopExit(s) ==
    /\ mpc[s] = "loop"
    /\ stop_programming
    /\ mpc' = [mpc EXCEPT ![s] = "cleanup"]
    /\ known_ports' = [known_ports EXCEPT ![s] = {}]
    /\ pending_futures' = [pending_futures EXCEPT ![s] = <<>>]
    /\ hub_load_balancing' =
          [hub_load_balancing EXCEPT ![s] = [h \in HubIds |-> {}]]
    /\ programmed_ports' = [programmed_ports EXCEPT ![s] = {}]
    /\ resulted_ports' = [resulted_ports EXCEPT ![s] = {}]
    /\ delayed_ports' = [delayed_ports EXCEPT ![s] = {}]
    /\ jobs' = Forget(jobs, pending_futures')
    /\ UNCHANGED <<appVars, settingVars, statVars, nSessions, current_ports,
                   todo, waitExec, nJobs, env, retryVars, tightened, startVars, auxVars>>

\* self.executor accepts a submission.
PoolAccepts == executor # 0 /\ ~execShut[executor]

\* executor.submit(program_device_with_retry, fqbn, port, hub_id) by manager
\* thread s, and the future stored: a new job in the queue of the pool
\* self.executor names now.
Submit(s, port, hub_id) ==
    /\ nJobs < MaxJobs
    /\ nJobs' = nJobs + 1
    /\ jobs' = [jobs EXCEPT
          ![nJobs + 1] = [state |-> "queued", port |-> port, hub_id |-> hub_id,
                          exec |-> executor, sess |-> s, outcome |-> "none"]]
    /\ pending_futures' =
          [pending_futures EXCEPT
              ![s] = Append(pending_futures[s], <<port, nJobs + 1>>)]

\* The conditions under which an iteration goes on to the hub check.
Eligible(s, port) ==
    /\ ~(mode_var = "Single" /\ port \in programmed_ports[s])
    /\ port \in NewPorts(s)
    /\ ~stop_programming
    /\ port \notin Keys(pending_futures[s])

\* One iteration of "Program new devices", for the next port of the scan.
AdmitStep(s) ==
    /\ mpc[s] = "admit"
    /\ \E port \in todo[s] :
       LET hub_id == HubIdOf(port)
           rest == todo[s] \ {port}
           next == /\ todo' = [todo EXCEPT ![s] = rest]
                   /\ UNCHANGED current_ports
                   /\ mpc' = [mpc EXCEPT
                                ![s] = IF rest = {} THEN "collect" ELSE "admit"]
       IN
       IF Eligible(s, port)
       THEN IF check_hub_capacity(hub_id, hub_load_balancing[s])
            THEN /\ hub_load_balancing' =
                       [hub_load_balancing EXCEPT
                           ![s][hub_id] = hub_load_balancing[s][hub_id] \cup {port}]
                 /\ delayed_ports' =
                       [delayed_ports EXCEPT ![s] = delayed_ports[s] \ {port}]
                 /\ dispatched' = IF PoolAccepts /\ env.history
                                   THEN [dispatched EXCEPT ![s] = @ \cup {port}]
                                   ELSE dispatched
                 /\ IF PoolAccepts
                    THEN Submit(s, port, hub_id) /\ next
                    ELSE \* executor.submit raises: the handler of the loop
                         \* logs it and the tick is abandoned
                         /\ mpc' = [mpc EXCEPT ![s] = "loop"]
                         /\ todo' = [todo EXCEPT ![s] = {}]
                         /\ current_ports' = [current_ports EXCEPT ![s] = {}]
                         /\ UNCHANGED <<pending_futures, jobVars>>
            ELSE /\ next
                 /\ delayed_ports' =
                       [delayed_ports EXCEPT ![s] = delayed_ports[s] \cup {port}]
                 /\ UNCHANGED <<pending_futures, hub_load_balancing, jobVars,
                                dispatched>>
       ELSE /\ next
            /\ UNCHANGED <<pending_futures, hub_load_balancing, delayed_ports,
                           jobVars, dispatched>>
    /\ UNCHANGED <<appVars, settingVars, statVars, nSessions, known_ports,
                   programmed_ports, resulted_ports, waitExec, env, retryVars,
                   tightened, startVars, finished, hubVars>>

\* A future of the dict yields a result: its job is done and did not raise.
Resulted(f) == jobs[f[2]].state = "done" /\ jobs[f[2]].outcome # "raise"

RECURSIVE Results(_)
\* The results the completed futures of an ordered dict yield, in its order.
Results(d) ==
    IF d = <<>> THEN <<>>
    ELSE (IF Resulted(d[1])
          THEN <<[port |-> d[1][1], success |-> (jobs[d[1][2]].outcome = "ok"),
                  sess |-> jobs[d[1][2]].sess, job |-> d[1][2]]>>
          ELSE <<>>) \o Results(Tail(d))

\* "Check completed futures", "Remove completed futures" and the update of
\* known_ports that ends the tick.
Collect(s) ==
    /\ mpc[s] = "collect"
    /\ LET done == {i \in 1..Len(pending_futures[s]) :
                       jobs[pending_futures[s][i][2]].state = "done"}
           completed_ports == {pending_futures[s][i][1] : i \in done}
           resulted == {pending_futures[s][i][1] :
                           i \in {k \in done : Resulted(pending_futures[s][k])}}
       IN
       /\ result_queue' = result_queue \o Results(pending_futures[s])
       /\ programmed_ports' =
             [programmed_ports EXCEPT
                 ![s] = IF mode_var = "Single"
                        THEN programmed_ports[s] \cup resulted
                        ELSE programmed_ports[s]]
       /\ pending_futures' =
             [pending_futures EXCEPT
                 ![s] = SelectPairs(pending_futures[s], completed_ports)]
       /\ hub_load_balancing' =
             [hub_load_balancing EXCEPT
                 ![s] = ReleaseAll(hub_load_balancing[s], completed_ports)]
       /\ known_ports' = [known_ports EXCEPT ![s] = current_ports[s]]
       /\ current_ports' = [current_ports EXCEPT ![s] = {}]
       /\ resulted_ports' =
             [resulted_ports EXCEPT ![s] = resulted_ports[s] \cup resulted]
       /\ mpc' = [mpc EXCEPT ![s] = "loop"]
    /\ jobs' = Forget(jobs, pending_futures')
    /\ UNCHANGED <<appVars, settingVars, stats, rp_pc, rp_result, nSessions,
                   todo, delayed_ports, waitExec, nJobs, env, retryVars, tightened, startVars, auxVars>>

\* program_single_port up to future.result(): the job is submitted for the
\* selected port with hub id "direct" and its future kept (in
\* pending_futures, which stands for the local variable), or submit raises
\* and the handler logs it.
SingleSubmit(s) ==
    /\ mpc[s] = "single"
    /\ IF PoolAccepts
       THEN /\ Submit(s, env.port_var, Direct)
            /\ mpc' = [mpc EXCEPT ![s] = "result"]
       ELSE /\ mpc' = [mpc EXCEPT ![s] = "cleanup"]
            /\ UNCHANGED <<pending_futures, jobVars>>
    /\ UNCHANGED <<appVars, settingVars, statVars, nSessions, known_ports,
                   hub_load_balancing, programmed_ports, current_ports, todo,
                   resulted_ports, delayed_ports, waitExec, env, retryVars,
                   tightened, startVars, auxVars>>

\* future.result() returns and the result is put on result_queue, or it
\* raises what the job raised and the handler logs it; program_single_port
\* returns.
SingleResult(s) ==
    /\ mpc[s] = "result"
    /\ \A i \in 1..Len(pending_futures[s]) :
          jobs[pending_futures[s][i][2]].state = "done"
    /\ result_queue' = result_queue \o Results(pending_futures[s])
    /\ pending_futures' = [pending_futures EXCEPT ![s] = <<>>]
    /\ jobs' = Forget(jobs, pending_futures')
    /\ mpc' = [mpc EXCEPT ![s] = "cleanup"]
    /\ UNCHANGED <<appVars, settingVars, stats, rp_pc, rp_result, nSessions,
                   known_ports, hub_load_balancing, programmed_ports,
                   current_ports, todo, resulted_ports, delayed_ports,
                   waitExec, nJobs, env, retryVars, tightened, startVars,
                   auxVars>>

\* programming_manager's finally: the flag is cleared and the pool that
\* self.executor names now is shut down, waiting for its jobs.
CleanupBegin(s) ==
    /\ mpc[s] = "cleanup"
    /\ programming_active' = FALSE
    /\ execShut' = IF executor # 0
                   THEN [execShut EXCEPT ![executor] = TRUE]
                   ELSE execShut
    /\ waitExec' = [waitExec EXCEPT ![s] = executor]
    /\ mpc' = [mpc EXCEPT ![s] = "join"]
    /\ UNCHANGED <<stop_programming, start_button, stop_button, executor,
                   execMax, settingVars, statVars, nSessions, loopVars,
                   jobVars, env, retryVars, tightened, startVars, auxVars>>

\* shutdown(wait=True) returns once the pool's jobs are finished; the
\* buttons are reset and the thread ends.
CleanupEnd(s) ==
    /\ mpc[s] = "join"
    /\ \A j \in JobIds :
          jobs[j].exec = waitExec[s] => jobs[j].state \in {"none", "done"}
    /\ start_button' = TRUE
    /\ stop_button' = FALSE
    /\ mpc' = [mpc EXCEPT ![s] = "done"]
    /\ UNCHANGED <<stop_programming, programming_active, executor, execShut,
                   execMax, settingVars, statVars, nSessions, loopVars,
                   waitExec, jobVars, env, retryVars, tightened, startVars, auxVars>>

\* ------------------------------------------------------------- worker pool

Running(e) == {j \in JobIds : jobs[j].exec = e /\ jobs[j].state = "running"}

\* A free worker of the job's pool takes it from the pool's queue.
JobStart(j) ==
    /\ jobs[j].state = "queued"
    /\ Cardinality(Running(jobs[j].exec)) < execMax[jobs[j].exec]
    /\ jobs' = [jobs EXCEPT ![j].state = "running"]
    /\ UNCHANGED <<appVars, settingVars, statVars, nSessions, mpc, loopVars,
                   waitExec, nJobs, env, retryVars, tightened, startVars, auxVars>>

\* program_device_with_retry ends: with a result, or by raising.
JobFinish(j) ==
    /\ jobs[j].state = "running"
    /\ \E o \in JobOutcomes :
          jobs' = [jobs EXCEPT
                     ![j] = IF j \in HeldIn(pending_futures)
                            THEN [@ EXCEPT !.state = "done", !.outcome = o]
                            ELSE Dropped]
    /\ finished' = IF env.history THEN Append(finished, j) ELSE finished
    /\ UNCHANGED <<appVars, settingVars, statVars, nSessions, mpc, loopVars,
                   waitExec, nJobs, env, retryVars, tightened, startVars,
                   dispatched, hubVars>>

\* -------------------------------------------------------- result processor

\* process_results takes a result; process_programming_result's first
\* statement counts it.
ProcessTotal ==
    /\ rp_pc = "get"
    /\ result_queue # <<>>
    /\ rp_result' = Head(result_queue)
    /\ result_queue' = Tail(result_queue)
    /\ stats' = [stats EXCEPT !.total_programmed = @ + 1]
    /\ rp_pc' = "append"
    /\ UNCHANGED <<appVars, settingVars, nSessions, mpc, loopVars, waitExec,
                   jobVars, env, retryVars, tightened, startVars, auxVars>>

\* self.stats["session_results"].append(result)
ProcessAppend ==
    /\ rp_pc = "append"
    /\ stats' = [stats EXCEPT !.session_results = Append(@, rp_result)]
    /\ rp_pc' = "count"
    /\ UNCHANGED <<appVars, settingVars, result_queue, rp_result, nSessions,
                   mpc, loopVars, waitExec, jobVars, env, retryVars, tightened, startVars, auxVars>>

\* The success or the failure is counted.
ProcessCount ==
    /\ rp_pc = "count"
    /\ stats' = IF rp_result.success
                THEN [stats EXCEPT !.successful = @ + 1]
                ELSE [stats EXCEPT !.failed = @ + 1]
    /\ rp_pc' = "get"
    /\ rp_result' = NoResult
    /\ UNCHANGED <<appVars, settingVars, result_queue, nSessions, mpc,
                   loopVars, waitExec, jobVars, env, retryVars, tightened, startVars, auxVars>>

\* ------------------------------------------------ program_device_with_retry

RetryChoices == -1..MaxRetries
ToolOutcomes == {"ok", "fail", "raise"}

\* What a job does that can be observed: a call of programmer.program_board,
\* a time.sleep, a line of the log.
Call(attempt) == [ev |-> "call", level |-> "", what |-> "program_board", n |-> attempt]
Sleep(what, seconds) == [ev |-> "sleep", level |-> "", what |-> what, n |-> seconds]
Log(level, what, attempt) == [ev |-> "log", level |-> level, what |-> what, n |-> attempt]

\* ProgrammingResult(port, success, message, ...): its success and its
\* message, the message as where it comes from and the attempt it is of.
Result(success, kind, attempt) ==
    [success |-> success, message |-> [kind |-> kind, attempt |-> attempt]]

\* A delay between retries that does not look at the hub.
RetryDelay_flat(hub_id) == IF hub_id # Direct THEN 1 ELSE 1

\* "Longer delay between retries for hub devices"
RetryDelay(hub_id) == IF hub_id # Direct THEN 2 ELSE 1

\* The function's first statements: max_retries is read and a job of a hub
\* device sleeps hub_programming_delay.
RetryBegin ==
    /\ r_pc = "start"
    /\ r_max_retries' = saved_data.max_retries
    /\ r_attempt' = 0
    /\ r_log' = IF r_hub_id # Direct
                THEN <<Sleep("hub_programming_delay", 0)>>  \* length not modelled
                ELSE <<>>
    /\ r_pc' = "attempt"
    /\ UNCHANGED <<orchVars, env, tightened, startVars, auxVars, r_hub_id, r_outcomes, r_result>>

\* One iteration of "for attempt in range(max_retries + 1)". The tool
\* returns success or failure, or raises. Building the ProgrammingResult
\* reads self.saved_data["baud_rate"]: without that key it raises KeyError,
\* inside the try block after the tool's call, and in the handler's own
\* ProgrammingResult of the last attempt, where nothing catches it.
RetryAttempt ==
    /\ r_pc = "attempt"
    /\ r_attempt <= r_max_retries
    /\ \E o \in ToolOutcomes :
       LET before == IF r_attempt > 0
                     THEN <<Log("WARNING", "retry", r_attempt),
                            Sleep("retry", RetryDelay(r_hub_id))>>
                     ELSE <<>>
           called == r_log \o before \o <<Call(r_attempt)>>
           built == o # "raise" /\ saved_data.baud_rate
           last == r_attempt = r_max_retries
       IN
       /\ r_outcomes' = Append(r_outcomes, o)
       /\ IF built
          THEN IF o = "ok" \/ last
               THEN /\ r_result' = Result(o = "ok", "tool", r_attempt)
                    /\ r_pc' = "returned"
                    /\ r_log' = called
                    /\ UNCHANGED r_attempt
               ELSE /\ r_log' = Append(called, Log("WARNING", "failed", r_attempt + 1))
                    /\ r_attempt' = r_attempt + 1
                    /\ UNCHANGED <<r_pc, r_result>>
          ELSE IF last
               THEN /\ r_log' = called
                    /\ UNCHANGED r_attempt
                    /\ IF saved_data.baud_rate
                       THEN /\ r_result' = Result(FALSE, "exception", r_attempt)
                            /\ r_pc' = "returned"
                       ELSE /\ r_pc' = "raised"
                            /\ UNCHANGED r_result
               ELSE /\ r_log' = Append(called, Log("WARNING", "exception", r_attempt + 1))
                    /\ r_attempt' = r_attempt + 1
                    /\ UNCHANGED <<r_pc, r_result>>
    /\ UNCHANGED <<orchVars, env, tightened, startVars, auxVars, r_hub_id, r_max_retries>>

\* The loop had no iteration to make: the "safety fallback" after it.
RetryFallback ==
    /\ r_pc = "attempt"
    /\ r_attempt > r_max_retries
    /\ IF saved_data.baud_rate
       THEN /\ r_result' = Result(FALSE, "Max retries exceeded", r_attempt)
            /\ r_pc' = "returned"
       ELSE /\ r_pc' = "raised"
            /\ UNCHANGED r_result
    /\ UNCHANGED <<orchVars, env, tightened, startVars, auxVars, r_hub_id, r_max_retries, r_attempt,
                   r_outcomes, r_log>>

\* The job's result reaches process_programming_result, which logs it.
RetryProcessResult ==
    /\ r_pc = "returned"
    /\ r_log' = Append(r_log, IF r_result.success
                              THEN Log("SUCCESS", "programmed", 0)
                              ELSE Log("ERROR", "failed", 0))
    /\ r_pc' = "processed"
    /\ UNCHANGED <<orchVars, env, tightened, startVars, auxVars, r_hub_id, r_max_retries, r_attempt,
                   r_outcomes, r_result>>

\* The job raised: future.result() raises in the poll loop, which logs it.
RetryFutureError ==
    /\ r_pc = "raised"
    /\ r_log' = Append(r_log, Log("ERROR", "future error", 0))
    /\ r_pc' = "errored"
    /\ UNCHANGED <<orchVars, env, tightened, startVars, auxVars, r_hub_id, r_max_retries, r_attempt,
                   r_outcomes, r_result>>

\* One job, of a port behind a hub or attached directly, under any settings
\* document: the defaults or a saved file, with any retry count.
InitRetry ==
    /\ InitApp
    /\ StartIdle
    /\ AuxIdle
    /\ tightened = FALSE
    /\ env = [starts |-> 1, ports |-> Ports, settings_dialog |-> TRUE,
              nested |-> FALSE, history |-> FALSE,
              port_var |-> 0]
    /\ saved_data \in [max_retries : RetryChoices,
                       max_parallel_jobs : {DefaultMaxParallelJobs},
                       max_devices_per_hub : {DefaultMaxDevicesPerHub},
                       baud_rate : BOOLEAN]
    /\ mode_var = "Continuous"
    /\ r_pc = "start"
    /\ r_hub_id \in HubIds
    /\ r_max_retries = 0
    /\ r_attempt = 0
    /\ r_outcomes = <<>>
    /\ r_log = <<>>
    /\ r_result = Result(FALSE, "none", 0)

NextRetry ==
    \/ RetryBegin
    \/ RetryAttempt
    \/ RetryFallback
    \/ RetryProcessResult
    \/ RetryFutureError

SpecRetry == InitRetry /\ [][NextRetry]_vars

\* ------------------------------------------------------------------- Spec

Next ==
    \/ StartProgramming
    \/ StopProgrammingAction
    \/ SaveSettings
    \/ \E s \in Sessions : ManagerBegin(s)
    \/ \E s \in Sessions : TickBegin(s)
    \/ \E s \in Sessions : LoopExit(s)
    \/ \E s \in Sessions : AdmitStep(s)
    \/ \E s \in Sessions : Collect(s)
    \/ \E s \in Sessions : CleanupBegin(s)
    \/ \E s \in Sessions : CleanupEnd(s)
    \/ \E j \in JobIds : JobStart(j)
    \/ \E j \in JobIds : JobFinish(j)
    \/ ProcessTotal
    \/ ProcessAppend
    \/ ProcessCount

Spec == Init /\ [][Next]_vars

\* The sessions with start_programming followed from the click: stop and
\* start again on one port, the settings left alone.
InitStart ==
    /\ InitApp
    /\ RetryIdle
    /\ StartIdle
    /\ AuxIdle
    /\ tightened = FALSE
    /\ env = [starts |-> MaxSessions, ports |-> {1}, settings_dialog |-> FALSE,
              nested |-> FALSE, history |-> FALSE,
              port_var |-> 0]
    /\ saved_data = [max_retries |-> DefaultMaxRetries,
                     max_parallel_jobs |-> DefaultMaxParallelJobs,
                     max_devices_per_hub |-> DefaultMaxDevicesPerHub,
                     baud_rate |-> TRUE]
    /\ mode_var = "Continuous"

NextStart ==
    \/ StartCommand
    \/ StopProgrammingAction
    \/ \E s \in Sessions : ManagerBegin(s)
    \/ \E s \in Sessions : TickBegin(s)
    \/ \E s \in Sessions : LoopExit(s)
    \/ \E s \in Sessions : AdmitStep(s)
    \/ \E s \in Sessions : Collect(s)
    \/ \E s \in Sessions : CleanupBegin(s)
    \/ \E s \in Sessions : CleanupEnd(s)
    \/ \E j \in JobIds : JobStart(j)
    \/ \E j \in JobIds : JobFinish(j)
    \/ ProcessTotal
    \/ ProcessAppend
    \/ ProcessCount

SpecStart == InitStart /\ [][NextStart]_vars

\* The runs explored behind nested hubs, with refresh_ports: one session in
\* which both ports come and go, or one session on one port in which the
\* settings dialog is used.
NestedEnvelopes ==
    {[starts |-> 1, ports |-> Ports, settings_dialog |-> FALSE,
      nested |-> TRUE, history |-> FALSE,
              port_var |-> 0],
     [starts |-> 1, ports |-> {1}, settings_dialog |-> TRUE,
      nested |-> TRUE, history |-> FALSE,
              port_var |-> 0]}

InitNested ==
    /\ InitApp
    /\ RetryIdle
    /\ StartIdle
    /\ AuxIdle
    /\ tightened = FALSE
    /\ env \in NestedEnvelopes
    /\ saved_data = [max_retries |-> DefaultMaxRetries,
                     max_parallel_jobs |-> DefaultMaxParallelJobs,
                     max_devices_per_hub |-> DefaultMaxDevicesPerHub,
                     baud_rate |-> TRUE]
    /\ mode_var = "Continuous"

NextNested ==
    \/ Next
    \/ RefreshPorts

SpecNested == InitNested /\ [][NextNested]_vars

\* Sessions started one after the other on one port, the settings file
\* holding one parallel job.
InitPool ==
    /\ InitApp
    /\ RetryIdle
    /\ StartIdle
    /\ AuxIdle
    /\ tightened = FALSE
    /\ env = [starts |-> MaxSessions, ports |-> {1}, settings_dialog |-> FALSE,
              nested |-> FALSE, history |-> FALSE,
              port_var |-> 0]
    /\ saved_data \in [max_retries : {DefaultMaxRetries},
                       max_parallel_jobs : {1},
                       max_devices_per_hub : {DefaultMaxDevicesPerHub},
                       baud_rate : BOOLEAN]
    /\ mode_var \in ExecutionModes

NextPool ==
    \/ StartProgramming
    \/ StopProgrammingAction
    \/ \E s \in Sessions : ManagerBegin(s)
    \/ \E s \in Sessions : TickBegin(s)
    \/ \E s \in Sessions : LoopExit(s)
    \/ \E s \in Sessions : AdmitStep(s)
    \/ \E s \in Sessions : Collect(s)
    \/ \E s \in Sessions : CleanupBegin(s)
    \/ \E s \in Sessions : CleanupEnd(s)
    \/ \E j \in JobIds : JobStart(j)
    \/ \E j \in JobIds : JobFinish(j)
    \/ ProcessTotal
    \/ ProcessAppend
    \/ ProcessCount

SpecPool == InitPool /\ [][NextPool]_vars

\* One session in which both ports come and go and the enumerator may fail,
\* with the history of the jobs' ends.
InitTick ==
    /\ InitApp
    /\ RetryIdle
    /\ StartIdle
    /\ AuxIdle
    /\ tightened = FALSE
    /\ env = [starts |-> 1, ports |-> Ports, settings_dialog |-> FALSE,
              nested |-> FALSE, history |-> TRUE,
              port_var |-> 0]
    /\ saved_data = [max_retries |-> DefaultMaxRetries,
                     max_parallel_jobs |-> DefaultMaxParallelJobs,
                     max_devices_per_hub |-> DefaultMaxDevicesPerHub,
                     baud_rate |-> TRUE]
    /\ mode_var \in ExecutionModes

NextTick ==
    \/ StartProgramming
    \/ StopProgrammingAction
    \/ \E s \in Sessions : ManagerBegin(s)
    \/ \E s \in Sessions : TickBegin(s)
    \/ \E s \in Sessions : TickFails(s)
    \/ \E s \in Sessions : TickResume(s)
    \/ \E s \in Sessions : LoopExit(s)
    \/ \E s \in Sessions : AdmitStep(s)
    \/ \E s \in Sessions : Collect(s)
    \/ \E s \in Sessions : CleanupBegin(s)
    \/ \E s \in Sessions : CleanupEnd(s)
    \/ \E j \in JobIds : JobStart(j)
    \/ \E j \in JobIds : JobFinish(j)
    \/ ProcessTotal
    \/ ProcessAppend
    \/ ProcessCount

SpecTick == InitTick /\ [][NextTick]_vars

\* One session on two ports of one hub, the settings left alone, with one
\* or two devices per hub allowed, and with the history kept.
InitSlots ==
    /\ InitApp
    /\ RetryIdle
    /\ StartIdle
    /\ AuxIdle
    /\ tightened = FALSE
    /\ env = [starts |-> 1, ports |-> Ports, settings_dialog |-> FALSE,
              nested |-> FALSE, history |-> TRUE,
              port_var |-> 0]
    /\ saved_data \in [max_retries : {DefaultMaxRetries},
                       max_parallel_jobs : {DefaultMaxParallelJobs},
                       max_devices_per_hub : HubCapacityChoices,
                       baud_rate : {TRUE}]
    /\ mode_var \in ExecutionModes

NextSlots ==
    \/ StartProgramming
    \/ StopProgrammingAction
    \/ \E s \in Sessions : ManagerBegin(s)
    \/ \E s \in Sessions : TickBegin(s)
    \/ \E s \in Sessions : LoopExit(s)
    \/ \E s \in Sessions : AdmitStep(s)
    \/ \E s \in Sessions : Collect(s)
    \/ \E s \in Sessions : CleanupBegin(s)
    \/ \E s \in Sessions : CleanupEnd(s)
    \/ \E j \in JobIds : JobStart(j)
    \/ \E j \in JobIds : JobFinish(j)
    \/ ProcessTotal
    \/ ProcessAppend
    \/ ProcessCount

SpecSlots == InitSlots /\ [][NextSlots]_vars

\* Sessions started one after the other with a specific port selected.
InitSingle ==
    /\ InitApp
    /\ RetryIdle
    /\ StartIdle
    /\ AuxIdle
    /\ tightened = FALSE
    /\ env = [starts |-> MaxSessions, ports |-> {1}, settings_dialog |-> FALSE,
              nested |-> FALSE, history |-> FALSE,
              port_var |-> 1]
    /\ saved_data \in [max_retries : {DefaultMaxRetries},
                       max_parallel_jobs : {DefaultMaxParallelJobs},
                       max_devices_per_hub : {DefaultMaxDevicesPerHub},
                       baud_rate : BOOLEAN]
    /\ mode_var \in ExecutionModes

NextSingle ==
    \/ StartProgramming
    \/ StopProgrammingAction
    \/ \E s \in Sessions : ManagerBegin(s)
    \/ \E s \in Sessions : SingleSubmit(s)
    \/ \E s \in Sessions : SingleResult(s)
    \/ \E s \in Sessions : CleanupBegin(s)
    \/ \E s \in Sessions : CleanupEnd(s)
    \/ \E j \in JobIds : JobStart(j)
    \/ \E j \in JobIds : JobFinish(j)
    \/ ProcessTotal
    \/ ProcessAppend
    \/ ProcessCount

SpecSingle == InitSingle /\ [][NextSingle]_vars

\* One call of get_ports_with_hub_info, for every hwid the ports can have.
InitHub ==
    /\ InitApp
    /\ RetryIdle
    /\ StartIdle
    /\ tightened = FALSE
    /\ finished = <<>>
    /\ dispatched = [s \in Sessions |-> {}]
    /\ hwid \in [Ports -> HwIds]
    /\ ports_info = <<>>
    /\ env = [starts |-> 1, ports |-> Ports, settings_dialog |-> FALSE,
              nested |-> FALSE, history |-> FALSE,
              port_var |-> 0]
    /\ saved_data = [max_retries |-> DefaultMaxRetries,
                     max_parallel_jobs |-> DefaultMaxParallelJobs,
                     max_devices_per_hub |-> DefaultMaxDevicesPerHub,
                     baud_rate |-> TRUE]
    /\ mode_var = "Continuous"

NextHub == GetPortsWithHubInfo

SpecHub == InitHub /\ [][NextHub]_vars

\* ================================================================ properties

\* The jobs of manager thread s for port p that are queued or executing.
InFlight(s, p) ==
    {j \in JobIds : /\ jobs[j].sess = s
                    /\ jobs[j].port = p
                    /\ jobs[j].state \in {"queued", "running"}}

\* This step, manager thread s submits a job for port p.
Dispatched(s, p) ==
    p \notin Keys(pending_futures[s]) /\ p \in Keys(pending_futures'[s])

\* This step is the iteration of the admission loop of s for port p, and
\* the tick goes on or ends with it.
Reached(s, p) ==
    mpc[s] = "admit" /\ p \in todo[s] /\ todo'[s] = todo[s] \ {p}

\* C1: for every port, at most one job of the poll loop for it is queued or
\* executing at any instant, also when the port disappears from a scan
\* while its job runs and then reappears.
C1_NoDoubleDispatch ==
    \A s \in Sessions, p \in Ports : Cardinality(InFlight(s, p)) <= 1

\* Every hub group but "direct" holds at most max_devices_per_hub ports.
HubWithinCapacity ==
    \A s \in Sessions, h \in HubIds \ {Direct} :
        Cardinality(hub_load_balancing[s][h]) <= saved_data.max_devices_per_hub

\* C2: as long as max_devices_per_hub is left unchanged, no step of the
\* program (a scan, an admission, a collection, a job's end, a command)
\* takes a hub group but "direct" beyond max_devices_per_hub ports: the
\* groups, empty when the session starts, stay within capacity.
C2_HubCapacityKept ==
    [][(/\ saved_data'.max_devices_per_hub = saved_data.max_devices_per_hub
        /\ HubWithinCapacity) => HubWithinCapacity']_vars

\* C2's case: a tick has filled a hub group to its capacity.
C2_HubFull ==
    \E s \in Sessions, h \in HubIds \ {Direct} :
        /\ mpc[s] = "collect"
        /\ Cardinality(hub_load_balancing[s][h]) = saved_data.max_devices_per_hub

\* C3: whenever no call of process_programming_result is under way,
\* total_programmed = successful + failed = len(session_results).
C3_StatsConsistent ==
    rp_pc = "get" =>
        /\ stats.total_programmed = stats.successful + stats.failed
        /\ stats.total_programmed = Len(stats.session_results)

\* C4: in mode "Single" no job is submitted for a port the session has
\* collected a result of.
C4_SingleNeverResubmits ==
    [][\A s \in Sessions, p \in Ports :
          (mode_var = "Single" /\ p \in resulted_ports[s]) => ~Dispatched(s, p)]_vars

\* C5 as stated: in mode "Continuous", when the admission loop of a tick
\* reaches an attached port that has produced a result and is no longer in
\* flight, with room in its hub group, no stop requested and the pool
\* accepting jobs, it dispatches the port again.
C5_DispatchedWhenNotInFlight ==
    [][\A s \in Sessions, p \in Ports :
          (/\ Reached(s, p)
           /\ mode_var = "Continuous"
           /\ p \in current_ports[s]
           /\ p \in resulted_ports[s]
           /\ p \notin Keys(pending_futures[s])
           /\ check_hub_capacity(HubIdOf(p), hub_load_balancing[s])
           /\ ~stop_programming
           /\ PoolAccepts)
          => Dispatched(s, p)]_vars

\* C5 amended: in mode "Continuous" a port that has produced a result is
\* dispatched again only as a new port, one the tick's scan holds and the
\* scan before did not, that is not pending, with room in its hub group and
\* no stop requested; and when the admission loop reaches such a port it
\* takes the hub slot and calls executor.submit, which dispatches the job
\* if the pool accepts it and otherwise raises and ends the tick.
C5_RedispatchedWhenNew ==
    [][\A s \in Sessions, p \in Ports :
          (mode_var = "Continuous" /\ p \in resulted_ports[s]) =>
             LET room == \/ HubIdOf(p) = Direct
                         \/ Cardinality(hub_load_balancing[s][HubIdOf(p)])
                               < saved_data.max_devices_per_hub
                 new == p \in current_ports[s] /\ p \notin known_ports[s]
             IN
             /\ Dispatched(s, p) => (new /\ room /\ ~stop_programming)
             /\ (/\ Reached(s, p)
                 /\ new /\ room /\ ~stop_programming
                 /\ p \notin Keys(pending_futures[s]))
                => /\ p \in hub_load_balancing'[s][HubIdOf(p)]
                   /\ IF PoolAccepts
                      THEN Dispatched(s, p)
                      ELSE mpc'[s] = "loop" /\ ~Dispatched(s, p)]_vars

\* C5's case: in mode "Continuous" a port that has produced a result has a
\* job in flight again.
C5_Redispatched ==
    \E s \in Sessions, p \in Ports :
        /\ mode_var = "Continuous"
        /\ p \in resulted_ports[s]
        /\ InFlight(s, p) # {}
        /\ p \in Keys(pending_futures[s])

\* C6: with max_devices_per_hub = 1, when the admission loop reaches a port
\* of a hub group but "direct": if the group is empty and the port passes
\* the admission conditions (new, not pending, no stop requested, not
\* skipped by mode "Single"), the port is admitted and is the group's only
\* port; and while the group holds a port, no step of the admission loop
\* admits or dispatches another port of the group. So of two ports of the
\* group first seen in one tick the first reached is admitted and the other
\* is not, until the slot is released.
C6_OneSlotOneAdmission ==
    [][\A s \in Sessions, p \in Ports :
          LET h == HubIdOf(p) IN
          (h # Direct /\ saved_data.max_devices_per_hub = 1 /\ mpc[s] = "admit") =>
             /\ (/\ Reached(s, p)
                 /\ hub_load_balancing[s][h] = {}
                 /\ p \in current_ports[s] /\ p \notin known_ports[s]
                 /\ p \notin Keys(pending_futures[s])
                 /\ ~stop_programming
                 /\ ~(mode_var = "Single" /\ p \in programmed_ports[s]))
                => hub_load_balancing'[s][h] = {p}
             /\ hub_load_balancing[s][h] # {}
                => /\ hub_load_balancing'[s][h] = hub_load_balancing[s][h]
                   /\ ~Dispatched(s, p)]_vars

\* C6's case: with capacity 1, two ports of one hub group were new in the
\* same tick; its admission loop is over, one of them holds the slot with a
\* job submitted and the other was refused.
C6_OneOfTwoAdmitted ==
    \E s \in Sessions, a \in Ports, b \in Ports :
        /\ a # b /\ HubIdOf(a) = HubIdOf(b) /\ HubIdOf(a) # Direct
        /\ saved_data.max_devices_per_hub = 1
        /\ mpc[s] = "collect"
        /\ {a, b} \subseteq current_ports[s] \ known_ports[s]
        /\ hub_load_balancing[s][HubIdOf(a)] = {a}
        /\ a \in Keys(pending_futures[s])
        /\ b \notin Keys(pending_futures[s])
        /\ b \in delayed_ports[s]

\* C7: when the admission loop of a later tick reaches a port that was
\* refused for hub capacity and has stayed attached since, and finds room
\* in its hub group, the session running and the pool accepting jobs, it
\* admits and dispatches the port.
C7_RefusedPortAdmittedLater ==
    [][\A s \in Sessions, p \in Ports :
          (/\ Reached(s, p)
           /\ p \in delayed_ports[s]
           /\ p \notin Keys(pending_futures[s])
           /\ ~(mode_var = "Single" /\ p \in programmed_ports[s])
           /\ check_hub_capacity(HubIdOf(p), hub_load_balancing[s])
           /\ ~stop_programming
           /\ PoolAccepts)
          => Dispatched(s, p)]_vars

\* The job is over and what became of it is logged.
RetryEnded == r_pc \in {"processed", "errored"}

\* The lines of the job's log of one level.
LogLines(level) ==
    {i \in 1..Len(r_log) : r_log[i].ev = "log" /\ r_log[i].level = level}

\* The calls of programmer.program_board the job made.
ToolCalls == {i \in 1..Len(r_log) : r_log[i].ev = "call"}

\* C8: a job that made attempts, all of them failed, made max_retries + 1
\* calls of the tool and returned a result with success false and the
\* message of its last attempt.
C8_AlwaysFailingJob ==
    (/\ RetryEnded
     /\ r_outcomes # <<>>
     /\ \A i \in 1..Len(r_outcomes) : r_outcomes[i] # "ok")
    => /\ r_pc = "processed"
       /\ Cardinality(ToolCalls) = r_max_retries + 1
       /\ ~r_result.success
       /\ r_result.message.kind \in {"tool", "exception"}
       /\ r_result.message.attempt = r_max_retries

\* C9: with max_retries = 2 and a tool that fails twice and then succeeds,
\* the job returns success after 3 calls of the tool, and its log holds 2
\* WARNING lines and 1 SUCCESS line.
C9_FailFailOk ==
    (/\ RetryEnded
     /\ r_max_retries = 2
     /\ r_outcomes = <<"fail", "fail", "ok">>)
    => /\ r_pc = "processed"
       /\ r_result.success
       /\ Cardinality(ToolCalls) = 3
       /\ Cardinality(LogLines("WARNING")) = 2
       /\ Cardinality(LogLines("SUCCESS")) = 1

\* C10: under every settings document, the tool is not called again once a
\* call of it returned success.
C10_NoCallAfterSuccess ==
    \A i \in 1..Len(r_outcomes) : r_outcomes[i] = "ok" => i = Len(r_outcomes)

\* C11: under every settings document and whatever the tool does, the call
\* of program_device_with_retry never ends by raising: the job's future
\* never completes with an exception.
C11_NeverRaises == r_pc \notin {"raised", "errored"}

\* The poll loop of manager thread s ends with this step.
LoopEnds(s) == mpc[s] = "loop" /\ mpc'[s] = "cleanup"

\* The job of a pending handle has produced a result or is going to: it is
\* done with one, or still queued or running under settings that let it
\* return one.
YieldsResult(f) ==
    \/ Resulted(f)
    \/ jobs[f[2]].state \in {"queued", "running"} /\ saved_data.baud_rate

\* C12: the result of every job submitted before stop is passed on to the
\* statistics: when the poll loop ends after stop it holds no handle of a
\* job whose result it has not put on result_queue.
C12_NoResultLeftAtStop ==
    [][\A s \in Sessions :
          LoopEnds(s) =>
             \A i \in 1..Len(pending_futures[s]) :
                 ~YieldsResult(pending_futures[s][i])]_vars

\* Stop was requested for the session of manager thread s: it is the latest
\* session and the stop flag is set, or a later session was started, which
\* the start button allows only after the stop of a session whose poll loop
\* is still under way.
StopRequested(s) ==
    \/ s = nSessions /\ stop_programming
    \/ s < nSessions

\* This step begins a poll iteration of manager thread s.
TickBegins(s) == mpc[s] = "loop" /\ mpc'[s] \in {"admit", "collect"}

\* C13: once stop was requested for a session, its poll loop begins no
\* poll iteration and submits no job, also when start_programming follows
\* the stop.
C13_NothingAfterStop ==
    [][\A s \in Sessions :
          StopRequested(s) =>
             /\ ~TickBegins(s)
             /\ \A p \in Ports : ~Dispatched(s, p)]_vars

\* C14: a start is accepted only when no earlier session has a job handle
\* pending or a job still queued or executing.
C14_StartOnlyWhenDrained ==
    [][nSessions' = nSessions + 1 =>
          \A s \in Sessions :
             /\ pending_futures[s] = <<>>
             /\ \A p \in Ports : InFlight(s, p) = {}]_vars

\* C16: between two ticks every hub slot held is the slot of a port with a
\* pending handle, so that the collection of its job releases it.
C16_HeldSlotHasHandle ==
    \A s \in Sessions :
        mpc[s] = "loop" =>
            \A h \in HubIds : hub_load_balancing[s][h] \subseteq Keys(pending_futures[s])

\* The inputs of a start command that must be refused: no board selected,
\* no firmware path or a path that does not exist, no programmer object, or
\* a tool that does not answer.
InvalidInput(in) ==
    \/ in.board_var = ""
    \/ in.file_var = ""
    \/ ~path_exists(in.file_var)
    \/ ~in.programmer
    \/ in.check_arduino_cli # "available"

\* C15: a call of start_programming that finds an invalid input changes
\* nothing: the statistics, the flags, the buttons, the pool and the manager
\* threads (and all the rest of the application's state) are as before.
C15_RefusedStartChangesNothing ==
    [][(startVars' # startVars /\ InvalidInput(start_input'))
          => UNCHANGED <<orchVars, tightened>>]_vars

\* A start was refused after a stopped session that had counted a result,
\* with the stop flag set: the statistics and the flag are there to be kept.
C15_RefusedAfterSession ==
    /\ InvalidInput(start_input)
    /\ messagebox # ""
    /\ nSessions = 1
    /\ stop_programming
    /\ stats.total_programmed > 0

\* An earlier scan of the poll loop of s has listed a port behind nested
\* hubs: known_ports is the scan of the tick before.
NestedSeen(s) == \E q \in known_ports[s] : HubLevelOf(q) >= 2

\* C17: after a scan of the session has shown a hub level of 2 or more, a
\* port is admitted only into an empty hub group (max_devices_per_hub = 1)
\* and the pool the job is submitted to has at most 2 workers.
C17_TightenedAfterNestedScan ==
    [][\A s \in Sessions, p \in Ports :
          (Dispatched(s, p) /\ NestedSeen(s)) =>
             /\ HubIdOf(p) = Direct \/ hub_load_balancing'[s][HubIdOf(p)] \subseteq {p}
             /\ execMax[executor] <= 2]_vars

\* C18: once detect_nested_hubs has tightened the options in a running
\* session, no step of that session raises max_devices_per_hub or
\* max_parallel_jobs.
C18_TighteningMonotonic ==
    [][(tightened /\ tightened' /\ programming_active /\ programming_active') =>
          /\ saved_data'.max_devices_per_hub <= saved_data.max_devices_per_hub
          /\ saved_data'.max_parallel_jobs <= saved_data.max_parallel_jobs]_vars

\* Port p is in no hub group of manager thread s.
HoldsNoSlot(s, p) == \A h \in HubIds : p \notin hub_load_balancing[s][h]

\* C19: the release of a port's hub slot raises no error and is idempotent:
\* in every hub bookkeeping the program reaches, a second release of the
\* port leaves what the first left, and the release of a port that holds no
\* slot leaves the bookkeeping as it is.
C19_ReleaseIdempotent ==
    \A s \in Sessions, p \in Ports :
        LET once == Release(hub_load_balancing[s], p)
            twice == Release(once.hlb, p)
        IN /\ ~once.raised
           /\ ~twice.raised
           /\ twice.hlb = once.hlb
           /\ HoldsNoSlot(s, p) => once.hlb = hub_load_balancing[s]

\* A port whose slot the collection of its job released has disappeared from
\* the scan, and the tick has released it again as a disconnected port.
C19_ReleasedTwice ==
    \E s \in Sessions, p \in Ports :
        /\ mpc[s] \in {"admit", "collect"}
        /\ p \in known_ports[s] \ current_ports[s]
        /\ p \in resulted_ports[s]
        /\ HoldsNoSlot(s, p)

\* The places the result of job j is in: the handles pending of the job, its
\* results on result_queue, the result the processor holds and has yet to
\* append, and its entries in session_results.
Handles(j) ==
    Cardinality({<<s, i>> \in Sessions \X (1..NumPorts) :
                    i <= Len(pending_futures[s]) /\ pending_futures[s][i][2] = j})
QueuedResults(j) ==
    Cardinality({i \in 1..Len(result_queue) : result_queue[i].job = j})
BeingApplied(j) == IF rp_pc = "append" /\ rp_result.job = j THEN 1 ELSE 0
Recorded(j) ==
    Cardinality({i \in 1..Len(stats.session_results) :
                    stats.session_results[i].job = j})

Sleeps == {i \in 1..Len(r_log) : r_log[i].ev = "sleep"}

\* The sleeps of the job between the events i and k of its log.
SleepsBetween(i, k) == {m \in Sleeps : i < m /\ m < k}

\* C29: the job of a port behind a hub begins with the sleep of
\* hub_programming_delay and the job of a direct port with none; between two
\* calls of the tool that follow each other there is one sleep, of 2 for a
\* port behind a hub and of 1 for a direct port; there is no other sleep:
\* none before the first call but the pre-delay, none after the last call.
C29_SleepsOfAJob ==
    r_pc # "start" =>
        /\ \A m \in Sleeps :
              r_log[m].what = "hub_programming_delay" <=> m = 1 /\ r_hub_id # Direct
        /\ r_hub_id # Direct => r_log # <<>> /\ 1 \in Sleeps
        /\ \A i, k \in ToolCalls :
              (i < k /\ \A c \in ToolCalls : ~(i < c /\ c < k)) =>
                 /\ Cardinality(SleepsBetween(i, k)) = 1
                 /\ \A m \in SleepsBetween(i, k) :
                       /\ r_log[m].what = "retry"
                       /\ r_log[m].n = IF r_hub_id = Direct THEN 1 ELSE 2
        /\ \A m \in Sleeps :
              r_log[m].what = "retry" =>
                 /\ \E i \in ToolCalls : i < m
                 /\ \E k \in ToolCalls : m < k

\* The job of a port behind a hub has ended after three calls of the tool.
C29_HubJobRetriedTwice ==
    /\ RetryEnded
    /\ r_hub_id # Direct
    /\ Cardinality(ToolCalls) = 3

\* The ports that hold a hub slot in the bookkeeping of manager thread s.
SlotHolders(s) == UNION {hub_load_balancing[s][h] : h \in HubIds}

\* C22: at the end of every poll tick a port is in one hub group at most,
\* and the ports in the hub groups are the ports with a pending handle.
C22_SlotsAreThePending ==
    \A s \in Sessions :
        mpc[s] = "loop" =>
            /\ \A p \in Ports :
                  Cardinality({h \in HubIds : p \in hub_load_balancing[s][h]}) <= 1
            /\ SlotHolders(s) = Keys(pending_futures[s])

\* The collection of this step finds the future of port p done.
SeenDone(s, p) ==
    /\ mpc[s] = "collect"
    /\ mpc'[s] = "loop"
    /\ \E i \in 1..Len(pending_futures[s]) :
          /\ pending_futures[s][i][1] = p
          /\ jobs[pending_futures[s][i][2]].state = "done"

\* C24: the tick that finds the future of a port done ends with the port in
\* no hub group (and with no handle of it), so that the admission of the
\* next tick finds the slot free.
C24_ReleasedWhenSeenDone ==
    [][\A s \in Sessions, p \in Ports :
          SeenDone(s, p) =>
             /\ \A h \in HubIds : p \notin hub_load_balancing'[s][h]
             /\ p \notin Keys(pending_futures'[s])]_vars

\* With one device per hub, the admission of a later tick has a new port
\* of the hub to look at and finds the group empty, the port collected
\* before holding no slot.
C24_FreedSlotSeen ==
    \E s \in Sessions, p \in Ports, q \in Ports :
        /\ p # q
        /\ HubIdOf(p) = HubIdOf(q)
        /\ HubIdOf(q) # Direct
        /\ saved_data.max_devices_per_hub = 1
        /\ p \in resulted_ports[s]
        /\ mpc[s] = "admit"
        /\ q \in todo[s] \cap NewPorts(s)
        /\ hub_load_balancing[s][HubIdOf(q)] = {}

\* The jobs executing in the process, whatever pool they are of.
Executing == {j \in JobIds : jobs[j].state = "running"}

\* C26: the jobs executing at one time are never more than the
\* max_parallel_jobs the pool of the running session was created with.
C26_ExecutingWithinPoolSize ==
    executor # 0 => Cardinality(Executing) <= execMax[executor]

\* C27: a manager thread has ended only when none of the jobs its poll loop
\* submitted is still queued or executing: its clean-up has waited for them.
C27_ManagerOutlivesItsJobs ==
    \A s \in Sessions :
        mpc[s] = "done" => \A p \in Ports : InFlight(s, p) = {}

\* process_programming_result has counted a result and has yet to append it
\* or to count its success or failure.
Aggregating == rp_pc \in {"append", "count"}

\* C28: start_programming does not replace self.stats while
\* process_programming_result is applying a result to it.
C28_NoResetWhileAggregating ==
    [][nSessions' = nSessions + 1 => ~Aggregating]_vars

\* The place of job j in the history of the jobs' ends, 0 when it has not
\* ended.
FinishedAt(j) ==
    IF \E i \in 1..Len(finished) : finished[i] = j
    THEN CHOOSE i \in 1..Len(finished) : finished[i] = j
    ELSE 0

\* C23: the results are applied to the statistics in the order in which
\* their jobs ended.
C23_AppliedInCompletionOrder ==
    \A i, k \in 1..Len(stats.session_results) :
        i < k => FinishedAt(stats.session_results[i].job)
                    < FinishedAt(stats.session_results[k].job)

\* This step, get_ports_with_hub_info raises in the poll loop of s.
ScanRaises(s) == mpc[s] = "loop" /\ mpc'[s] = "except"

\* C25: a tick whose scan raises changes nothing of the loop's bookkeeping
\* and submits no job, and the loop goes on from its handler to its
\* condition.
C25_FailedScanSkipsTheTick ==
    [][\A s \in Sessions :
          /\ ScanRaises(s) =>
                /\ known_ports'[s] = known_ports[s]
                /\ pending_futures'[s] = pending_futures[s]
                /\ hub_load_balancing'[s] = hub_load_balancing[s]
                /\ programmed_ports'[s] = programmed_ports[s]
                /\ UNCHANGED jobVars
          /\ mpc[s] = "except" => mpc'[s] \in {"except", "loop"}]_vars

\* The scan of a tick has raised in a session that knows a port and has a
\* handle pending.
C25_ScanFailedMidSession ==
    \E s \in Sessions :
        /\ mpc[s] = "except"
        /\ known_ports[s] # {}
        /\ pending_futures[s] # <<>>

\* The USB location of a location text: what precedes the interface
\* suffix.
UsbLocation(text) ==
    IF \E i \in 1..Len(text) : text[i] = ":"
    THEN SubSeq(text, 1, (CHOOSE i \in 1..Len(text) :
                             text[i] = ":" /\ \A k \in 1..(i - 1) : text[k] # ":") - 1)
    ELSE text

\* The dots of a text.
Dots(text) == {i \in 1..Len(text) : text[i] = "."}

\* A text up to its last dot, the dot left out.
UpToLastDot(text) ==
    SubSeq(text, 1, (CHOOSE i \in Dots(text) : \A k \in Dots(text) : k <= i) - 1)

\* C21: for a hwid with a USB location of n segments, hub_id is the location
\* up to its last '.' and hub_level is n - 1 when n >= 2, and hub_id is
\* "direct" and hub_level 0 when n = 1; for a hwid with neither a location
\* nor vendor and product ids, hub_id is "direct" and the level read is 0.
C21_HubIdAndLevel ==
    ports_info # <<>> =>
        \A p \in DOMAIN hwid :
            LET location == UsbLocation(hwid[p].location)
                n == Cardinality(Dots(location)) + 1
            IN /\ (hwid[p].location # <<>> /\ n >= 2) =>
                     /\ ports_info[p].hub_id = UpToLastDot(location)
                     /\ hub_level_get(ports_info[p]) = n - 1
               /\ (hwid[p].location # <<>> /\ n = 1) =>
                     /\ ports_info[p].hub_id = Direct
                     /\ hub_level_get(ports_info[p]) = 0
               /\ (hwid[p].location = <<>> /\ ~hwid[p].usb_vid) =>
                     /\ ports_info[p].hub_id = Direct
                     /\ hub_level_get(ports_info[p]) = 0

\* The call has returned the port_info of a port two hubs deep, its location
\* followed by the interface suffix, and of a port with no USB hwid.
C21_NestedAndPlain ==
    /\ ports_info # <<>>
    /\ \E p \in DOMAIN hwid :
          /\ hwid[p].location = <<"1", "-", "1", ".", "4", ".", "1", "0", ":", "1", ".", "0">>
          /\ ports_info[p].hub_id = <<"1", "-", "1", ".", "4">>
    /\ \E p \in DOMAIN hwid : ~hwid[p].usb_vid

\* C30: two ports without a location and with vendor and product ids are in
\* the same hub group, which is not "direct", exactly when their
\* vendor and product ids are the same.
C30_GroupedByVidPid ==
    ports_info # <<>> =>
        \A p, q \in DOMAIN hwid :
            (/\ hwid[p].location = <<>> /\ hwid[p].usb_vid
             /\ hwid[q].location = <<>> /\ hwid[q].usb_vid)
            => /\ ports_info[p].hub_id # Direct
               /\ ports_info[p].hub_id = ports_info[q].hub_id
                     <=> hwid[p].vid_pid = hwid[q].vid_pid

\* C31: every result counted in self.stats comes from a job of the session
\* the last start_programming began, the statistics having been reset at
\* that start.
C31_StatsOfCurrentSession ==
    \A i \in 1..Len(stats.session_results) :
        stats.session_results[i].sess = nSessions

\* C32: a poll loop of a session that is not the last one started begins no
\* poll iteration: one poll loop at most is polling and dispatching.
C32_OnlyCurrentLoopPolls ==
    [][\A s \in Sessions : TickBegins(s) => s = nSessions]_vars

\* This step is the clean-up of manager thread s: the finally block of
\* programming_manager up to the call of shutdown.
CleansUp(s) == mpc[s] = "cleanup" /\ mpc'[s] = "join"

\* C33: the clean-up of a manager thread shuts down no pool but the one
\* created for its own session and does not clear programming_active while
\* a later session is running.
C33_CleanupOfOwnSession ==
    [][\A s \in Sessions :
          CleansUp(s) =>
             /\ \A e \in Sessions : (execShut'[e] /\ ~execShut[e]) => e = s
             /\ (programming_active /\ ~programming_active') => s = nSessions]_vars

\* The jobs of manager thread s for ports admitted under hub group h that
\* are queued or executing.
HubJobs(s, h) ==
    {j \in JobIds : /\ jobs[j].sess = s
                    /\ jobs[j].hub_id = h
                    /\ jobs[j].state \in {"queued", "running"}}

\* C34: the jobs queued or executing for the ports admitted under one hub
\* group other than "direct" are never more than max_devices_per_hub.
C34_HubJobsWithinCapacity ==
    \A s \in Sessions : \A h \in HubIds \ {Direct} :
        Cardinality(HubJobs(s, h)) <= saved_data.max_devices_per_hub

\* This step submits a job for port p in the poll loop of manager thread s.
Dispatches(s, p) ==
    /\ mpc[s] = "admit"
    /\ p \notin Keys(pending_futures[s])
    /\ p \in Keys(pending_futures'[s])

\* C35: a port for which a job was submitted and which has been in every
\* scan since is not dispatched again, in either execution mode.
C35_AttachedDispatchedOnce ==
    [][\A s \in Sessions : \A p \in Ports :
          Dispatches(s, p) => p \notin dispatched[s]]_vars

\* The admission loop of a later tick reaches a port that stayed attached
\* after its job was submitted, finished and collected, in continuous mode.
C35_AttachedPortSeenAgain ==
    \E s \in Sessions : \E p \in Ports :
        /\ mode_var = "Continuous"
        /\ mpc[s] = "admit"
        /\ p \in todo[s]
        /\ p \in dispatched[s]
        /\ p \in resulted_ports[s]
        /\ p \notin Keys(pending_futures[s])
        /\ ~stop_programming

\* C36: with a specific port selected, the manager thread that has reached
\* program_single_port submits one job, with hub id "direct", goes on from
\* waiting for it by putting one result on result_queue, and its clean-up
\* leaves programming_active false.
C36_SinglePortSession ==
    [][\A s \in Sessions :
          /\ (mpc[s] = "single" /\ mpc'[s] # "single") =>
                /\ mpc'[s] = "result"
                /\ nJobs' = nJobs + 1
                /\ jobs'[nJobs'].sess = s
                /\ jobs'[nJobs'].hub_id = Direct
          /\ (mpc[s] = "result" /\ mpc'[s] # "result") =>
                /\ Len(result_queue') = Len(result_queue) + 1
                /\ result_queue'[Len(result_queue')].sess = s
          /\ CleansUp(s) => ~programming_active']_vars
====
